---- MODULE Spec2Model ----
(***************************************************************************)
(* Model of app.py: a Flask service that keeps one uploaded dataframe in   *)
(* the module global df, asks a chat model for Plotly code, executes it,   *)
(* feeds the error of a failed execution back to the model (at most        *)
(* MAX_RETRIES executions) and writes the figure to                        *)
(* static/enhanced_interactive_graph.html; /dashboard asks the model for a *)
(* summary and writes three charts and summary.json.                       *)
(*                                                                         *)
(* Text (prompts, model responses, code, error messages) is a sequence of  *)
(* tokens; Python's  a in b  on strings is contiguous containment.         *)
(***************************************************************************)
EXTENDS Integers, Sequences, FiniteSets, TLC

\* ---------------------------------------------------------------- bounds

\* Longest code fragment (in tokens) fed to import normalization.
MaxCodeLen == 5

\* Most model calls of one of two interleaved requests.
MaxRaceCalls == 3

\* Most uploads handled while one request is under way.
MaxRaceUploads == 1

\* ---------------------------------------------------------- program constants

MAX_RETRIES == 4

\* The module global of line 28; get_plotly_code_from_gpt reads it at line 155.
retries == 0

\* range(3) of get_plotly_code_from_gpt, line 123.
SynthesisAttempts == 3

\* A summary budget of one attempt more.
SummaryRetriesOneMore == 3 + 1

\* Default of the parameter retries of get_summary_from_gpt, line 184.
SummaryRetries == 3

\* ------------------------------------------------------------------- text

\* pat in text
Contains(text, pat) ==
    \E i \in 0..(Len(text) - Len(pat)) :
        \A k \in 1..Len(pat) : text[i + k] = pat[k]

\* text.endswith(suffix)
EndsWith(text, suffix) ==
    /\ Len(text) >= Len(suffix)
    /\ SubSeq(text, Len(text) - Len(suffix) + 1, Len(text)) = suffix

IsSpace(tok) == tok \in {" ", "\n"}

\* text.strip()
Strip(text) ==
    LET keep == {i \in 1..Len(text) : ~IsSpace(text[i])}
    IN  IF keep = {} THEN <<>>
        ELSE LET lo == CHOOSE i \in keep : \A j \in keep : i <= j
                 hi == CHOOSE i \in keep : \A j \in keep : j <= i
             IN  SubSeq(text, lo, hi)

\* text.replace(old, "") for a one-token old
RECURSIVE Remove(_, _)
Remove(text, tok) ==
    IF text = <<>> THEN <<>>
    ELSE IF Head(text) = tok THEN Remove(Tail(text), tok)
    ELSE <<Head(text)>> \o Remove(Tail(text), tok)

\* --------------------------------------------------------------- datasets

\* df = None, line 25
NoData == [name |-> "None", rows |-> 0, cols |-> 0]

DataFull   == [name |-> "sales",       rows |-> 3, cols |-> 2]
DataNoRows == [name |-> "header_only", rows |-> 0, cols |-> 2]
DataNoCols == [name |-> "blank_sheet", rows |-> 0, cols |-> 0]
DataOneCol == [name |-> "one_column",  rows |-> 3, cols |-> 1]

Datasets == {DataFull, DataNoRows, DataNoCols, DataOneCol}

\* A file pd.read_csv / pd.read_excel cannot parse: the call raises.
Unreadable == [name |-> "unreadable", rows |-> 0, cols |-> 0]

\* What parsing an uploaded file can come to.
Parsed == Datasets \cup {Unreadable}

\* dataframe.describe(include='all') raises ValueError on a frame without
\* columns and returns a description otherwise (also for a frame without rows).
DescribeRaises(dataframe) == dataframe.cols = 0

DescribeError == <<"Cannot", "describe", "a", "DataFrame", "without", "columns">>

\* ---------------------------------------------------- code synthesis client

\* An optional string: None, or a text (possibly the empty string).
NoneText == [bound |-> FALSE, text |-> <<>>]
Some(text) == [bound |-> TRUE, text |-> text]

\* Python truthiness of an optional string: None and "" are false.
Truthy(opt) == opt.bound /\ opt.text # <<>>

\* The prompt with the previous error left out.
ComposePromptWithoutError(dataframe, error_message) ==
    <<"Given the following data description:", dataframe.name,
      "Generate Python code using Plotly",
      "Use this Dataframe in your generated code", dataframe.name>>

\* Lines 105-121: the prompt embeds the description and the dataframe, and the
\* previous error only  if error_message:
ComposePrompt(dataframe, error_message) ==
    <<"Given the following data description:", dataframe.name,
      "Generate Python code using Plotly",
      "Use this Dataframe in your generated code", dataframe.name>>
    \o (IF Truthy(error_message)
        THEN <<"Previous attempt resulted in the following error:">>
             \o error_message.text
        ELSE <<>>)

\* What openai.ChatCompletion.create can do: raise, or return a content.
RespProse    == <<"Here", "is", "a", "bar", "chart", "of", "your", "data">>
RespUnclosed == <<"[fence]python", "\n", "fig = px.bar(df)">>
RespFenced   == <<"Sure:", "\n", "[fence]python", "\n",
                  "import", "plotly.express", "as", "px", "\n",
                  "fig = px.bar(df)", "\n", "fig.show()", "\n", "[fence]",
                  "\n", "Enjoy">>

ApiFailure == [raised |-> TRUE, content |-> <<>>]
Reply(text) == [raised |-> FALSE, content |-> text]

ModelOutcomes == {ApiFailure, Reply(RespProse), Reply(RespUnclosed), Reply(RespFenced)}

ApiError == <<"Rate", "limit", "reached">>

\* "[fence]" stands for the three backquotes of a Markdown fence.  The closing
\* fence of the pattern is found at a token "[fence]" and at the start of a
\* token "[fence]python".
IsFence(tok) == tok \in {"[fence]", "[fence]python"}

\* re.search of line 138 (fence, python, lazy any text, fence): the leftmost opening
\* fence that has a fence after it, up to the nearest such fence.
FenceMatches(text) ==
    {i \in 1..Len(text) :
        /\ text[i] = "[fence]python"
        /\ \E j \in (i + 1)..Len(text) : IsFence(text[j])}

HasCode(text) == FenceMatches(text) # {}

\* code_match.group(1).strip()
ExtractCode(text) ==
    LET i == CHOOSE a \in FenceMatches(text) : \A b \in FenceMatches(text) : a <= b
        closing == {j \in (i + 1)..Len(text) : IsFence(text[j])}
        j == CHOOSE a \in closing : \A b \in closing : a <= b
    IN  Strip(SubSeq(text, i + 1, j - 1))

MarkSubplots == <<"make_subplots">>
MarkNumpy    == <<"numpy">>
MarkGo       == <<"plotly.graph_objects", "as", "go">>

ImportSubplots == <<"from", "plotly.subplots", "import", "make_subplots", "\n">>
ImportNumpy    == <<"import", "numpy", "as", "np", "\n">>
ImportGo       == <<"import", "plotly.graph_objects", "as", "go", "\n">>

\* Normalization that prepends "import plotly.graph_objects" without "as go".
EnsureImportsBareGo(code) ==
    LET c1 == IF ~Contains(code, MarkSubplots) THEN ImportSubplots \o code ELSE code
        c2 == IF ~Contains(c1, MarkNumpy) THEN ImportNumpy \o c1 ELSE c1
        c3 == IF ~Contains(c2, MarkGo)
              THEN <<"import", "plotly.graph_objects", "\n">> \o c2 ELSE c2
    IN  c3

\* Lines 143-148: each test sees the code as the earlier rules left it.
EnsureImports(code) ==
    LET c1 == IF ~Contains(code, MarkSubplots) THEN ImportSubplots \o code ELSE code
        c2 == IF ~Contains(c1, MarkNumpy) THEN ImportNumpy \o c1 ELSE c1
        c3 == IF ~Contains(c2, MarkGo) THEN ImportGo \o c2 ELSE c2
    IN  c3

\* The value of a call of get_plotly_code_from_gpt: a code text, or None.
NoneCode == [isNone |-> TRUE, text |-> <<>>]
Code(text) == [isNone |-> FALSE, text |-> text]

\* ------------------------------------------------------------ error texts

\* str(e) of the exceptions the pipeline can meet.
AttributeErrorNone == <<"'NoneType'", "object", "has", "no", "attribute", "'replace'">>
KeyErrorFig        == <<"'fig'">>
WriteError         == <<"No", "space", "left", "on", "device">>
UnboundLocalError  == <<"cannot", "access", "local", "variable", "'error_message'">>
NotFoundError      == <<"404", "Not", "Found">>
NoUploadError      == <<"No", "data", "uploaded.">>

\* What the generated code can raise: an exception with a message, or one
\* without (str(e) is then the empty string).
ExecErrors == {<<"division", "by", "zero">>, <<>>}

\* The figures generated code can bind to fig.
Figures == {"bar_figure", "scatter_figure"}

\* exec(code, {}, local_vars) followed by local_vars['fig'], lines 163-164.
ExecOutcomes ==
    {[kind |-> "raised", error |-> e, fig |-> "none"] : e \in ExecErrors}
    \cup {[kind |-> "no_fig", error |-> KeyErrorFig, fig |-> "none"]}
    \cup {[kind |-> "fig", error |-> <<>>, fig |-> f] : f \in Figures}

\* Line 182: the f-string reads the local error_message of this activation.
FailedAfter(error_message) ==
    IF error_message.bound
    THEN [raises |-> "Exception",
          text |-> <<"Failed", "after", ToString(MAX_RETRIES), "retries:">>
                   \o error_message.text]
    ELSE [raises |-> "UnboundLocalError", text |-> UnboundLocalError]

\* ------------------------------------------------------------------ state

Callers == {1, 2}

NoFile == [made |-> FALSE, fig |-> "none", data |-> "none"]

NoChart == [made |-> FALSE, kind |-> "none", x |-> 0, y |-> 0, data |-> "none"]

NoSummary == [made |-> FALSE, points |-> <<>>]

VARIABLES
    df,        \* the module global df
    static,    \* the files of the static directory, by logical name
    pc,        \* where each request is
    syn,       \* the activation of get_plotly_code_from_gpt / get_summary_from_gpt
    frame,     \* the activation of execute_plotly_code of each request
    summary_json, \* the local summary_json of generate_dashboard
    response,  \* what the endpoint returned
    hist,      \* what each request has done so far (observation only)
    norm       \* a code fragment put through import normalization

vars == <<df, static, pc, syn, frame, summary_json, response, hist, norm>>

NoSyn == [dataframe |-> NoData, prompt |-> <<>>, attempt |-> 0, from |-> "none"]

NoFrame == [coder |-> NoneCode, dataframe |-> NoData, retries |-> 0,
            error_message |-> NoneText, code |-> <<>>, fig |-> "none"]

\* The activation of generate_dashboard: its local summary_json.
NoPoints == <<>>

NoResponse == [status |-> 0, error |-> <<>>, raised |-> "none", body |-> NoFile]

NoHist(files) ==
    [endpoint    |-> "none",
     before      |-> files,     \* the static directory when the request began
     trail       |-> <<>>,      \* the finished execution attempts
     attempts    |-> 0,         \* entries of the try block of line 160
     execs       |-> 0,         \* calls of exec, line 163
     synths      |-> 0,         \* calls of get_plotly_code_from_gpt
     model_calls |-> 0,         \* calls of ChatCompletion.create for code
     summary_calls |-> 0,       \* calls of ChatCompletion.create for a summary
     fenced      |-> 0,         \* responses that held a fenced fragment
     last_synth  |-> [calls |-> 0, outcome |-> "none"],
     last_prompt |-> <<>>,
     last_result |-> "none",    \* how the latest execution attempt ended
     last_error  |-> NoneText,  \* str(e) of the latest failed attempt
     last_fig    |-> "none",    \* the fig the latest execution bound
     last_reply  |-> [raised |-> FALSE, content |-> <<>>],
                                \* what the latest summary call of the model did
     purposes    |-> {},        \* what the prompts sent to the model asked for
     uploads     |-> 0,         \* uploads handled while the request was under way
     upload      |-> [hasFile |-> FALSE, filename |-> <<>>,
                      parsed |-> NoData, old |-> NoData]]
                                \* the file an /upload request sent, and df before it

NoFiles ==
    [enhanced_interactive_graph |-> NoFile,
     linegraph |-> NoChart, bargraph |-> NoChart, piechart |-> NoChart,
     summary |-> NoSummary]

NoNorm == [stage |-> "none", code |-> <<>>, once |-> <<>>, twice |-> <<>>]

Init ==
    /\ df = NoData
    /\ static = NoFiles
    /\ pc = [c \in Callers |-> "idle"]
    /\ syn = [c \in Callers |-> NoSyn]
    /\ frame = [c \in Callers |-> NoFrame]
    /\ summary_json = [c \in Callers |-> NoPoints]
    /\ response = [c \in Callers |-> NoResponse]
    /\ hist = [c \in Callers |-> NoHist(NoFiles)]
    /\ norm = NoNorm

\* The specifications below take requests one at a time: a request begins
\* only while no other request is under way.  Nothing in app.py enforces this;
\* it is the setting in which a single request is described.
Serial(c) == \A o \in Callers \ {c} : pc[o] = "idle"

\* ----------------------------------------------------------------- upload

FileNames ==
    {<<>>,
     <<"a", ".", "c", "s", "v">>,
     <<"a", ".", "x", "l", "s", "x">>,
     <<"a", ".", "x", "l", "s">>,
     <<"a", ".", "t", "x", "t">>,
     <<"c", "s", "v">>}

ExtCsv  == <<".", "c", "s", "v">>
ExtXlsx == <<".", "x", "l", "s", "x">>
ExtXls  == <<".", "x", "l", "s">>

\* An upload_file that assigns df before it looks at the file name.
UploadResultAssignsFirst(hasFile, filename, parsed, old) ==
    IF ~hasFile THEN [status |-> 400, df |-> old]
    ELSE IF filename = <<>> THEN [status |-> 400, df |-> old]
    ELSE IF parsed = Unreadable THEN [status |-> 500, df |-> old]
    ELSE IF EndsWith(filename, ExtCsv) THEN [status |-> 200, df |-> parsed]
    ELSE IF EndsWith(filename, ExtXlsx) \/ EndsWith(filename, ExtXls)
         THEN [status |-> 200, df |-> parsed]
    ELSE [status |-> 400, df |-> parsed]

\* The assignment df = pd.read_...(file) of lines 47 and 49: the call raises
\* before df is assigned (Flask answers 500), or df is the parsed frame.
Assigned(parsed, old) ==
    IF parsed = Unreadable THEN [status |-> 500, df |-> old]
    ELSE [status |-> 200, df |-> parsed]

\* upload_file, lines 35-55: the status it answers and the df it leaves.
\* parsed is what pd.read_csv / pd.read_excel does with the file.
UploadResult(hasFile, filename, parsed, old) ==
    IF ~hasFile THEN [status |-> 400, df |-> old]
    ELSE IF filename = <<>> THEN [status |-> 400, df |-> old]
    ELSE IF EndsWith(filename, ExtCsv) THEN Assigned(parsed, old)
    ELSE IF EndsWith(filename, ExtXlsx) \/ EndsWith(filename, ExtXls)
         THEN Assigned(parsed, old)
    ELSE [status |-> 400, df |-> old]

\* What upload_file can answer and leave in df, over the requests it can get.
UploadResults ==
    {UploadResult(hasFile, filename, parsed, df) :
        hasFile \in BOOLEAN, filename \in FileNames, parsed \in Parsed}

\* A request to /upload from a client that is not one of Callers.
UploadFile ==
    /\ \E r \in UploadResults : df' = r.df
    /\ UNCHANGED <<static, pc, syn, frame, summary_json, response, norm>>

Upload ==
    /\ \A c \in Callers : pc[c] = "idle"
    /\ UploadFile
    /\ UNCHANGED hist

\* An upload handled (by another thread of the server) while requests of
\* Callers are under way; each of them has seen one more upload.
UploadInterleaved ==
    /\ \E c \in Callers : pc[c] \notin {"idle", "done"}
    /\ \A c \in Callers : hist[c].uploads < MaxRaceUploads
    /\ UploadFile
    /\ hist' = [c \in Callers |->
                  IF pc[c] \notin {"idle", "done"}
                  THEN [hist[c] EXCEPT !.uploads = @ + 1]
                  ELSE hist[c]]

Answer(status, raised, error, body) ==
    [status |-> status, error |-> error, raised |-> raised, body |-> body]

\* A request to /upload by one of Callers, with its answer.
UploadRequest(c) ==
    /\ pc[c] = "idle"
    /\ Serial(c)
    /\ \E hasFile \in BOOLEAN, filename \in FileNames, parsed \in Parsed :
          LET r == UploadResult(hasFile, filename, parsed, df)
          IN  /\ df' = r.df
              /\ response' = [response EXCEPT ![c] =
                     IF r.status = 500
                     THEN Answer(500, "ParserError", <<"Error", "tokenizing", "data">>, NoFile)
                     ELSE Answer(r.status, "none", <<>>, NoFile)]
              /\ hist' = [hist EXCEPT ![c] =
                     [NoHist(static) EXCEPT
                         !.endpoint = "upload",
                         !.upload = [hasFile |-> hasFile, filename |-> filename,
                                     parsed |-> parsed, old |-> df]]]
    /\ pc' = [pc EXCEPT ![c] = "done"]
    /\ UNCHANGED <<static, syn, frame, summary_json, norm>>

\* ---------------------------------------------------------------- analyze

\* The except clauses of analyze_data and generate_dashboard, lines 66-69 and
\* 87-90: FileNotFoundError answers 404, any other exception 500 with str(e).
Caught(raised, error) ==
    IF raised = "FileNotFoundError"
    THEN Answer(404, raised, <<"File", "not", "found">>, NoFile)
    ELSE Answer(500, raised, error, NoFile)

\* What a prompt asks the model for: the prompt of lines 106-121 asks for
\* Plotly code (one graph), the prompt of lines 186-196 for summary points.
Purpose(prompt) ==
    IF Contains(prompt, <<"Generate Python code using Plotly">>) THEN "SingleGraph"
    ELSE IF Contains(prompt, <<"provide the top 4 key summary points">>) THEN "SummaryText"
    ELSE "none"

\* Entry of get_plotly_code_from_gpt(df, error_message), lines 104-121, called
\* at line 63 (from = "analyze_data") or at line 179 (from =
\* "execute_plotly_code").  describe is outside the try of the loop, so its
\* exception leaves the function and reaches the except of analyze_data.
\* h is the caller's history record before this call.
BeginSynthesis(c, from, error_message, h) ==
    IF DescribeRaises(df)
    THEN /\ pc' = [pc EXCEPT ![c] = "done"]
         /\ response' = [response EXCEPT ![c] = Caught("ValueError", DescribeError)]
         /\ syn' = [syn EXCEPT ![c] = NoSyn]
         /\ hist' = [hist EXCEPT ![c] =
                [h EXCEPT !.synths = @ + 1,
                          !.last_synth = [calls |-> 0, outcome |-> "describe_raised"]]]
    ELSE /\ pc' = [pc EXCEPT ![c] = "model"]
         /\ syn' = [syn EXCEPT ![c] =
                [dataframe |-> df,
                 prompt |-> ComposePrompt(df, error_message),
                 attempt |-> 0,
                 from |-> from]]
         /\ hist' = [hist EXCEPT ![c] =
                [h EXCEPT !.synths = @ + 1,
                          !.last_prompt = ComposePrompt(df, error_message),
                          !.last_synth = [calls |-> 0, outcome |-> "running"]]]
         /\ UNCHANGED response

\* analyze_data, lines 58-63, up to the first call of the model.
AnalyzeBegin(c) ==
    /\ pc[c] = "idle"
    /\ LET h == [NoHist(static) EXCEPT !.endpoint = "analyze"]
       IN  IF df = NoData
           THEN /\ pc' = [pc EXCEPT ![c] = "done"]
                /\ response' = [response EXCEPT ![c] =
                       Answer(400, "none", NoUploadError, NoFile)]
                /\ hist' = [hist EXCEPT ![c] = h]
                /\ UNCHANGED syn
           ELSE BeginSynthesis(c, "analyze_data", NoneText, h)
    /\ UNCHANGED <<df, static, frame, summary_json, norm>>

\* A request to /analyze that begins while no other request is under way.
AnalyzeStart(c) ==
    /\ Serial(c)
    /\ AnalyzeBegin(c)

\* A request to /analyze that begins while another one is under way.
AnalyzeInterleaved(c) ==
    /\ ~Serial(c)
    /\ AnalyzeBegin(c)

\* A retry that passes on the dataframe its own activation was given.
RetryDataframeOwn(c) == frame[c].dataframe

\* Line 180: the retry passes the module global df, not its parameter
\* dataframe, to the next activation.
RetryDataframe(c) == df

\* One iteration of the loop of get_plotly_code_from_gpt, lines 123-156: the
\* model answers m.  A fenced fragment is normalized and returned.  Anything
\* else is an exception caught at line 153, re-raised only when
\* attempt == retries - 1 with the module global retries; when the loop runs
\* out the function falls off its end and returns None.  The value returned
\* is the coder of a new activation of execute_plotly_code (line 64 with
\* retries 0, line 180 with the incremented retries), which reads df again.
SynthesisStep(c, m) ==
    LET a       == syn[c].attempt
        content == Strip(m.content)
        found   == ~m.raised /\ HasCode(content)
        h       == [hist[c] EXCEPT !.model_calls = @ + 1,
                                   !.purposes = @ \cup {Purpose(syn[c].prompt)},
                                   !.fenced = IF found THEN @ + 1 ELSE @]
        enter(value) ==
            /\ pc' = [pc EXCEPT ![c] = "exec"]
            /\ frame' = [frame EXCEPT ![c] =
                   [NoFrame EXCEPT
                       !.coder = value,
                       !.dataframe = IF syn[c].from = "analyze_data"
                                     THEN df ELSE RetryDataframe(c),
                       !.retries = IF syn[c].from = "analyze_data"
                                   THEN 0 ELSE frame[c].retries]]
            /\ syn' = [syn EXCEPT ![c] = NoSyn]
            /\ hist' = [hist EXCEPT ![c] =
                   [h EXCEPT !.last_synth =
                       [calls |-> a + 1,
                        outcome |-> IF value.isNone THEN "None" ELSE "code"]]]
            /\ UNCHANGED response
    IN  IF found
        THEN enter(Code(EnsureImports(ExtractCode(content))))
        ELSE IF a = retries - 1
        THEN /\ pc' = [pc EXCEPT ![c] = "done"]
             /\ response' = [response EXCEPT ![c] =
                    IF m.raised THEN Caught("APIError", ApiError)
                    ELSE Caught("ValueError",
                                <<"Code", "block", "not", "found", "in", "the", "response.">>)]
             /\ syn' = [syn EXCEPT ![c] = NoSyn]
             /\ hist' = [hist EXCEPT ![c] =
                    [h EXCEPT !.last_synth = [calls |-> a + 1, outcome |-> "raised"]]]
             /\ UNCHANGED frame
        ELSE IF a + 1 < SynthesisAttempts
        THEN /\ syn' = [syn EXCEPT ![c].attempt = a + 1]
             /\ hist' = [hist EXCEPT ![c] = h]
             /\ UNCHANGED <<pc, frame, response>>
        ELSE enter(NoneCode)

ModelCall(c) ==
    /\ pc[c] = "model"
    /\ \E m \in ModelOutcomes : SynthesisStep(c, m)
    /\ UNCHANGED <<df, static, summary_json, norm>>

\* A call of the model by a request that has made fewer than MaxRaceCalls.
ModelCallRace(c) ==
    /\ hist[c].model_calls < MaxRaceCalls
    /\ ModelCall(c)

\* No budget at all: the recursion of line 180 goes on while attempts fail.
WithinBudgetUnbounded(r) == TRUE

\* The budget test with <= for <: one execution too many.
WithinBudgetInclusive(r) == r <= MAX_RETRIES

\* Line 159: the test of the retry budget.
WithinBudget(r) == r < MAX_RETRIES

\* Line 161: coder.replace("fig.show()", "")
StripShow(text) == Remove(text, "fig.show()")

\* An except clause that asks the model again without counting the attempt.
FailAttemptKeepsRetries(c, result, msg, h) ==
    /\ frame' = [frame EXCEPT ![c].error_message = Some(msg)]
    /\ BeginSynthesis(c, "execute_plotly_code", Some(msg),
           [h EXCEPT !.trail = Append(@, [data |-> frame[c].dataframe.name, ok |-> FALSE]),
                     !.last_result = result,
                     !.last_error = Some(msg)])

\* The except clause of execute_plotly_code, lines 175-180, for an exception
\* with str(e) = msg: retries is incremented, the model is asked again with
\* the module global df and the message, and line 180 will run the answer.
\* h is the caller's history record before the clause.
FailAttempt(c, result, msg, h) ==
    /\ frame' = [frame EXCEPT ![c].retries = @ + 1,
                              ![c].error_message = Some(msg)]
    /\ BeginSynthesis(c, "execute_plotly_code", Some(msg),
           [h EXCEPT !.trail = Append(@, [data |-> frame[c].dataframe.name, ok |-> FALSE]),
                     !.last_result = result,
                     !.last_error = Some(msg)])

\* Lines 159-164 of one activation of execute_plotly_code within its budget:
\* a coder of None fails at coder.replace, before exec; otherwise exec raises,
\* or leaves no fig (KeyError at line 164), or binds fig.
Execute(c) ==
    /\ pc[c] = "exec"
    /\ WithinBudget(frame[c].retries)
    /\ LET h == [hist[c] EXCEPT !.attempts = @ + 1]
       IN  IF frame[c].coder.isNone
           THEN FailAttempt(c, "no_code", AttributeErrorNone, h)
           ELSE \E o \in ExecOutcomes :
                  LET h2 == [h EXCEPT !.execs = @ + 1, !.last_fig = o.fig]
                  IN  IF o.kind = "fig"
                      THEN /\ pc' = [pc EXCEPT ![c] = "write"]
                           /\ frame' = [frame EXCEPT
                                  ![c].code = StripShow(frame[c].coder.text),
                                  ![c].fig = o.fig]
                           /\ hist' = [hist EXCEPT ![c] = h2]
                           /\ UNCHANGED <<syn, response>>
                      ELSE FailAttempt(c, o.kind, o.error, h2)
    /\ UNCHANGED <<df, static, summary_json, norm>>

\* Line 182, reached in an activation entered with retries = MAX_RETRIES: the
\* exception leaves every activation (line 180 is inside an except clause, not
\* inside a try) and is caught by analyze_data.
Exhausted(c) ==
    /\ pc[c] = "exec"
    /\ ~WithinBudget(frame[c].retries)
    /\ LET e == FailedAfter(frame[c].error_message)
       IN  response' = [response EXCEPT ![c] = Caught(e.raises, e.text)]
    /\ pc' = [pc EXCEPT ![c] = "done"]
    /\ UNCHANGED <<df, static, syn, frame, summary_json, hist, norm>>

\* The file fig is written to, lines 170-172.
Rendered(c) == [made |-> TRUE, fig |-> frame[c].fig, data |-> frame[c].dataframe.name]

\* A try block that ends after line 164, before the file is written.
TryCoversExecOnly(line) == 161 <= line /\ line <= 164

\* The try block of execute_plotly_code spans lines 161-174.
TryCovers(line) == 161 <= line /\ line <= 174

\* A write_html that raised after it had emptied the file.
FailedWriteTruncates(c) == [static EXCEPT !.enhanced_interactive_graph = NoFile]

\* The static directory after a write_html that raised: the file is as it was.
FailedWrite(c) == static

\* fig.write_html, line 172: it writes the file and the activation returns
\* the path (line 174), or it raises; line 172 is inside the try, so the
\* except clause of line 175 runs.
WriteHtml(c) ==
    /\ pc[c] = "write"
    /\ \E ok \in BOOLEAN :
          IF ok
          THEN /\ static' = [static EXCEPT !.enhanced_interactive_graph = Rendered(c)]
               /\ pc' = [pc EXCEPT ![c] = "send"]
               /\ hist' = [hist EXCEPT ![c] =
                      [@ EXCEPT !.trail = Append(@, [data |-> frame[c].dataframe.name,
                                                     ok |-> TRUE]),
                                !.last_result = "success"]]
               /\ UNCHANGED <<syn, frame, response>>
          ELSE IF TryCovers(172)
          THEN /\ FailAttempt(c, "write_failed", WriteError, hist[c])
               /\ static' = FailedWrite(c)
          ELSE /\ static' = FailedWrite(c)
               /\ pc' = [pc EXCEPT ![c] = "done"]
               /\ response' = [response EXCEPT ![c] = Caught("OSError", WriteError)]
               /\ hist' = [hist EXCEPT ![c] =
                      [@ EXCEPT !.trail = Append(@, [data |-> frame[c].dataframe.name,
                                                     ok |-> FALSE]),
                                !.last_result = "write_failed",
                                !.last_error = Some(WriteError)]]
               /\ UNCHANGED <<syn, frame>>
    /\ UNCHANGED <<df, summary_json, norm>>

\* An answer made of what the request itself rendered.
ReadBackOwn(c) == Rendered(c)

\* Line 65: send_from_directory opens the file of the logical name, whatever
\* it holds by then.
ReadBack(c) == static.enhanced_interactive_graph

\* Line 65: send_from_directory reads the file back.
Send(c) ==
    /\ pc[c] = "send"
    /\ response' = [response EXCEPT ![c] =
           IF ReadBack(c).made
           THEN Answer(200, "none", <<>>, ReadBack(c))
           ELSE Caught("NotFound", NotFoundError)]
    /\ pc' = [pc EXCEPT ![c] = "done"]
    /\ UNCHANGED <<df, static, syn, frame, summary_json, hist, norm>>

\* The response has been delivered; the request's locals are gone.
Return(c) ==
    /\ pc[c] = "done"
    /\ pc' = [pc EXCEPT ![c] = "idle"]
    /\ syn' = [syn EXCEPT ![c] = NoSyn]
    /\ frame' = [frame EXCEPT ![c] = NoFrame]
    /\ summary_json' = [summary_json EXCEPT ![c] = NoPoints]
    /\ response' = [response EXCEPT ![c] = NoResponse]
    /\ hist' = [hist EXCEPT ![c] = NoHist(NoFiles)]
    /\ UNCHANGED <<df, static, norm>>

\* -------------------------------------------------------------- dashboard

\* A summary text is the list of its lines (summary.split('\n')), a line the
\* list of its parts (line.split(' - ')), a part a text.
SumGood ==
    << << <<"Rows">>, <<"3">> >>,
       << <<"Mean">>, <<" ", "5.0">> >>,
       << <<"Max">>, <<"6">> >>,
       << <<"Min">>, <<"4">> >> >>

SumMalformed ==
    << << <<"Rows">>, <<"3">> >>,
       << <<"Here are the key points">> >>,
       << <<"Max">>, <<"6">> >> >>

SumRepeated ==
    << << <<"Rows">>, <<"3">> >>,
       << <<"Mean">>, <<"5.0">> >>,
       << <<"Rows">>, <<"three">> >> >>

SumFive ==
    << << <<"Rows">>, <<"3">> >>,
       << <<"Mean">>, <<"5.0">> >>,
       << <<"Max">>, <<"6">> >>,
       << <<"Min">>, <<"4">> >>,
       << <<"Std">>, <<"1.0">>, <<"approx">> >> >>

SummaryOutcomes ==
    {ApiFailure, Reply(SumGood), Reply(SumMalformed), Reply(SumRepeated), Reply(SumFive)}

\* Line 214: line.split(' - ')[1] raises IndexError on a line without ' - '.
Malformed(lines) == \E i \in 1..Len(lines) : Len(lines[i]) < 2

IndexErrorText == <<"list", "index", "out", "of", "range">>

\* Line 214: the dict comprehension; a later line replaces the value of an
\* earlier line with the same key.
ParseSummary(lines) ==
    LET key(i) == Strip(lines[i][1])
        keys == {key(i) : i \in 1..Len(lines)}
        last(k) == CHOOSE i \in 1..Len(lines) :
                      /\ key(i) = k
                      /\ \A j \in 1..Len(lines) : key(j) = k => j <= i
    IN  [k \in keys |-> Strip(lines[last(k)][2])]

\* Lines 185-196.
SummaryPrompt(dataframe) ==
    <<"Given the following data description:", dataframe.name,
      "provide the top 4 key summary points", "[Key Metric] - [Value]">>

\* generate_dashboard, lines 73-79, up to the first call of the model;
\* describe (line 185) is outside the try of the loop.
DashboardStart(c) ==
    /\ pc[c] = "idle"
    /\ Serial(c)
    /\ LET h == [NoHist(static) EXCEPT !.endpoint = "dashboard"]
       IN  IF df = NoData
           THEN /\ pc' = [pc EXCEPT ![c] = "done"]
                /\ response' = [response EXCEPT ![c] =
                       Answer(400, "none", NoUploadError, NoFile)]
                /\ hist' = [hist EXCEPT ![c] = h]
                /\ UNCHANGED syn
           ELSE IF DescribeRaises(df)
           THEN /\ pc' = [pc EXCEPT ![c] = "done"]
                /\ response' = [response EXCEPT ![c] = Caught("ValueError", DescribeError)]
                /\ hist' = [hist EXCEPT ![c] = h]
                /\ UNCHANGED syn
           ELSE /\ pc' = [pc EXCEPT ![c] = "summary"]
                /\ syn' = [syn EXCEPT ![c] =
                       [dataframe |-> df, prompt |-> SummaryPrompt(df),
                        attempt |-> 0, from |-> "generate_dashboard"]]
                /\ hist' = [hist EXCEPT ![c] = [h EXCEPT !.last_prompt = SummaryPrompt(df)]]
                /\ UNCHANGED response
    /\ UNCHANGED <<df, static, frame, summary_json, norm>>

\* One iteration of the loop of get_summary_from_gpt(df) with its default
\* retries, lines 198-220: a parsed summary is returned; an exception is
\* re-raised when attempt == retries - 1.
SummaryStep(c, m) ==
    LET a  == syn[c].attempt
        ok == ~m.raised /\ ~Malformed(m.content)
        h  == [hist[c] EXCEPT !.summary_calls = @ + 1,
                              !.purposes = @ \cup {Purpose(syn[c].prompt)},
                              !.last_reply = m]
    IN  IF ok
        THEN /\ summary_json' = [summary_json EXCEPT ![c] = ParseSummary(m.content)]
             /\ pc' = [pc EXCEPT ![c] = "build"]
             /\ syn' = [syn EXCEPT ![c] = NoSyn]
             /\ hist' = [hist EXCEPT ![c] =
                    [h EXCEPT !.last_synth = [calls |-> a + 1, outcome |-> "summary"]]]
             /\ UNCHANGED response
        ELSE IF a = SummaryRetries - 1
        THEN /\ pc' = [pc EXCEPT ![c] = "done"]
             /\ response' = [response EXCEPT ![c] =
                    IF m.raised THEN Caught("APIError", ApiError)
                    ELSE Caught("IndexError", IndexErrorText)]
             /\ syn' = [syn EXCEPT ![c] = NoSyn]
             /\ hist' = [hist EXCEPT ![c] =
                    [h EXCEPT !.last_synth = [calls |-> a + 1, outcome |-> "raised"]]]
             /\ UNCHANGED summary_json
        ELSE /\ syn' = [syn EXCEPT ![c].attempt = a + 1]
             /\ hist' = [hist EXCEPT ![c] = h]
             /\ UNCHANGED <<pc, response, summary_json>>

SummaryCall(c) ==
    /\ pc[c] = "summary"
    /\ \E m \in SummaryOutcomes : SummaryStep(c, m)
    /\ UNCHANGED <<df, static, frame, norm>>

\* Charts with the two columns exchanged.
ChartSwapped(kind, dataframe) ==
    [made |-> TRUE, kind |-> kind, x |-> 1, y |-> 0, data |-> dataframe.name]

\* px.line / px.bar / px.pie of lines 224-226: x (names) is columns[0] and
\* y (values) is columns[1].
Chart(kind, dataframe) ==
    [made |-> TRUE, kind |-> kind, x |-> 0, y |-> 1, data |-> dataframe.name]

\* Lines 224-226 raise IndexError on a frame with fewer than two columns.
ChartsRaise(dataframe) == dataframe.cols < 2

\* The writes of create_dashboard in their order: lines 236, 237, 238, 247.
WriteOrder == <<"linegraph", "bargraph", "piechart", "summary">>

\* The file create_dashboard writes under a logical name.
DashboardFile(name, summary, dataframe) ==
    IF name = "linegraph" THEN Chart("line", dataframe)
    ELSE IF name = "bargraph" THEN Chart("bar", dataframe)
    ELSE IF name = "piechart" THEN Chart("pie", dataframe)
    ELSE [made |-> TRUE, points |-> summary]

\* The static directory after the first n writes of create_dashboard.
AfterWrites(n, summary, dataframe) ==
    [name \in DOMAIN static |->
        IF \E i \in 1..n : WriteOrder[i] = name
        THEN DashboardFile(name, summary, dataframe)
        ELSE static[name]]

\* create_dashboard(summary_json, df), lines 223-253, and the answer of
\* generate_dashboard: the figures are built, then the four files are written
\* one after the other; failAt = 0 when no write raises, else the write that
\* raises OSError.
CreateDashboard(c) ==
    /\ pc[c] = "build"
    /\ IF ChartsRaise(df)
       THEN /\ response' = [response EXCEPT ![c] =
                   Caught("IndexError", <<"index", "1", "is", "out", "of", "bounds">>)]
            /\ UNCHANGED static
       ELSE \E failAt \in 0..Len(WriteOrder) :
              IF failAt = 0
              THEN /\ static' = AfterWrites(Len(WriteOrder), summary_json[c], df)
                   /\ response' = [response EXCEPT ![c] = Answer(200, "none", <<>>, NoFile)]
              ELSE /\ static' = AfterWrites(failAt - 1, summary_json[c], df)
                   /\ response' = [response EXCEPT ![c] = Caught("OSError", WriteError)]
    /\ pc' = [pc EXCEPT ![c] = "done"]
    /\ UNCHANGED <<df, syn, frame, summary_json, hist, norm>>

Next ==
    \/ Upload
    \/ \E c \in Callers :
          \/ AnalyzeStart(c)
          \/ ModelCall(c)
          \/ Execute(c)
          \/ Exhausted(c)
          \/ WriteHtml(c)
          \/ Send(c)
          \/ Return(c)

Spec == Init /\ [][Next]_vars

\* The steps of an /analyze request that wait for nothing but the model, the
\* generated code or the file system.
AnalyzeStep(c) ==
    \/ ModelCall(c)
    \/ Execute(c)
    \/ Exhausted(c)
    \/ WriteHtml(c)
    \/ Send(c)

\* Spec with every call of the model, every execution and every file
\* operation returning: a request that can take a step takes one.
SpecLive == Spec /\ \A c \in Callers : WF_vars(AnalyzeStep(c))

\* The service after an upload was accepted and before any request for a
\* graph or a dashboard.
InitUploaded ==
    /\ df \in Datasets
    /\ static = NoFiles
    /\ pc = [c \in Callers |-> "idle"]
    /\ syn = [c \in Callers |-> NoSyn]
    /\ frame = [c \in Callers |-> NoFrame]
    /\ summary_json = [c \in Callers |-> NoPoints]
    /\ response = [c \in Callers |-> NoResponse]
    /\ hist = [c \in Callers |-> NoHist(NoFiles)]
    /\ norm = NoNorm

\* One /analyze request with uploads handled while it is under way: the
\* Flask server handles requests in threads and app.py holds no lock around
\* df.
NextUploadRace ==
    \/ UploadInterleaved
    \/ \E c \in Callers :
          \/ AnalyzeStart(c)
          \/ ModelCall(c)
          \/ Execute(c)
          \/ Exhausted(c)
          \/ WriteHtml(c)
          \/ Send(c)

SpecUploadRace == InitUploaded /\ [][NextUploadRace]_vars

\* Two /analyze requests handled at the same time, each making at most
\* MaxRaceCalls calls of the model (too few to exhaust the retry budget).
NextAnalyzeRace ==
    \E c \in Callers :
        \/ AnalyzeStart(c)
        \/ AnalyzeInterleaved(c)
        \/ ModelCallRace(c)
        \/ Execute(c)
        \/ WriteHtml(c)
        \/ Send(c)

SpecAnalyzeRace == InitUploaded /\ [][NextAnalyzeRace]_vars

NextDashboard ==
    \/ Upload
    \/ \E c \in Callers :
          \/ DashboardStart(c)
          \/ SummaryCall(c)
          \/ CreateDashboard(c)
          \/ Return(c)

SpecDashboard == Init /\ [][NextDashboard]_vars

\* /upload alone, each request with its answer.
NextUpload ==
    \E c \in Callers :
        \/ UploadRequest(c)
        \/ Return(c)

SpecUpload == Init /\ [][NextUpload]_vars

\* ------------------------------------------------ import normalization alone

\* The tokens the three markers are made of, and one that is part of none.
CodeTokens ==
    {"make_subplots", "numpy", "plotly.graph_objects", "as", "go", "fig = px.bar(df)"}

CodeTexts == UNION {[1..n -> CodeTokens] : n \in 0..MaxCodeLen}

InitNormalize ==
    /\ df = NoData
    /\ static = NoFiles
    /\ pc = [c \in Callers |-> "idle"]
    /\ syn = [c \in Callers |-> NoSyn]
    /\ frame = [c \in Callers |-> NoFrame]
    /\ summary_json = [c \in Callers |-> NoPoints]
    /\ response = [c \in Callers |-> NoResponse]
    /\ hist = [c \in Callers |-> NoHist(NoFiles)]
    /\ \E code \in CodeTexts : norm = [NoNorm EXCEPT !.stage = "extracted", !.code = code]

\* Lines 143-148 applied to an extracted fragment.
NormalizeOnce ==
    /\ norm.stage = "extracted"
    /\ norm' = [norm EXCEPT !.stage = "once", !.once = EnsureImports(norm.code)]
    /\ UNCHANGED <<df, static, pc, syn, frame, summary_json, response, hist>>

\* Lines 143-148 applied to their own result.
NormalizeAgain ==
    /\ norm.stage = "once"
    /\ norm' = [norm EXCEPT !.stage = "twice", !.twice = EnsureImports(norm.once)]
    /\ UNCHANGED <<df, static, pc, syn, frame, summary_json, response, hist>>

NextNormalize == NormalizeOnce \/ NormalizeAgain

SpecNormalize == InitNormalize /\ [][NextNormalize]_vars

\* ------------------------------------------------------ claims: vocabulary

Analyze(c) == hist[c].endpoint = "analyze"
Dashboard(c) == hist[c].endpoint = "dashboard"
Finished(c) == pc[c] = "done"

\* No execution attempt of the request has succeeded.
AllFailed(c) == \A i \in 1..Len(hist[c].trail) : ~hist[c].trail[i].ok

\* ---------------------------------------------------------------------- C1

\* C1: an analyze request whose execution attempts all fail makes exactly
\* MAX_RETRIES attempts and ends with an error answer; no request ever makes
\* more than MAX_RETRIES attempts.
C1_ExactlyMaxRetriesAttempts ==
    \A c \in Callers :
        /\ hist[c].attempts <= MAX_RETRIES
        /\ (Analyze(c) /\ Finished(c) /\ hist[c].attempts > 0 /\ AllFailed(c))
              => /\ hist[c].attempts = MAX_RETRIES
                 /\ Len(hist[c].trail) = MAX_RETRIES
                 /\ response[c].status = 500

C1_Witness ==
    \E c \in Callers :
        /\ Analyze(c) /\ Finished(c) /\ AllFailed(c)
        /\ hist[c].attempts = MAX_RETRIES
        /\ hist[c].execs = MAX_RETRIES
        /\ response[c].status = 500

\* ---------------------------------------------------------------------- C2

\* C2: when the retry budget is exhausted the answer carries the error
\* "Failed after MAX_RETRIES retries: <message of the last failed attempt>".
C2_SurfacesLastError ==
    \A c \in Callers :
        (Analyze(c) /\ Finished(c) /\ AllFailed(c) /\ hist[c].attempts = MAX_RETRIES)
            => /\ response[c].raised = "Exception"
               /\ response[c].error =
                      <<"Failed", "after", ToString(MAX_RETRIES), "retries:">>
                      \o hist[c].last_error.text

\* ---------------------------------------------------------------------- C3

\* C3: while no model response of an analyze request has held a fenced
\* fragment, the request makes no execution attempt and does not increment
\* retries, and it ends with the synthesis error.
C3_NoFenceNoExecution ==
    \A c \in Callers :
        (Analyze(c) /\ hist[c].model_calls > 0 /\ hist[c].fenced = 0)
            => /\ hist[c].attempts = 0
               /\ frame[c].retries = 0
               /\ Finished(c) => response[c].raised = "ValueError"

\* ---------------------------------------------------------------------- C4

\* C4: a call of get_plotly_code_from_gpt that saw no fenced fragment has
\* made exactly 3 model calls and ended by raising; it returned no value.
C4_SynthesisRaisesAfterThree ==
    \A c \in Callers :
        (Analyze(c) /\ hist[c].last_synth.outcome \in {"None", "raised"})
            => /\ hist[c].last_synth.calls = SynthesisAttempts
               /\ hist[c].last_synth.outcome = "raised"

\* ---------------------------------------------------------------------- C5

\* C5: when the first execution attempt fails and the second succeeds, the
\* request makes exactly 2 attempts and answers 200, the prompt of the second
\* synthesis contains the error message of the first attempt, and the file
\* enhanced_interactive_graph holds the figure of the second attempt.
C5_SecondAttemptSucceeds ==
    \A c \in Callers :
        (/\ Analyze(c)
         /\ Len(hist[c].trail) >= 2
         /\ ~hist[c].trail[1].ok
         /\ hist[c].trail[2].ok)
            => /\ Len(hist[c].trail) = 2
               /\ hist[c].attempts = 2
               /\ hist[c].synths = 2
               /\ pc[c] \in {"send", "done"}
               /\ Contains(hist[c].last_prompt, hist[c].last_error.text)
               /\ static.enhanced_interactive_graph =
                      [made |-> TRUE, fig |-> hist[c].last_fig,
                       data |-> frame[c].dataframe.name]
               /\ Finished(c) =>
                      /\ response[c].status = 200
                      /\ response[c].body.fig = hist[c].last_fig

C5_Witness ==
    \E c \in Callers :
        /\ Analyze(c) /\ Finished(c)
        /\ Len(hist[c].trail) = 2 /\ ~hist[c].trail[1].ok /\ hist[c].trail[2].ok
        /\ hist[c].last_error.text = <<"division", "by", "zero">>
        /\ response[c].status = 200

\* ---------------------------------------------------------------------- C6

\* C6: an analyze request on a dataset with zero rows makes no model call
\* and does not answer 200.
C6_EmptyDatasetNoModelCall ==
    \A c \in Callers :
        (Analyze(c) /\ df # NoData /\ df.rows = 0)
            => /\ hist[c].model_calls = 0
               /\ Finished(c) => response[c].status # 200

\* ---------------------------------------------------------------------- C7

\* An attempt of the request is not under way: every attempt entered is in
\* the trail.
BetweenAttempts(c) == Len(hist[c].trail) = hist[c].attempts

\* C7 as stated: an attempt that failed at the write of the file ends the
\* request with that error, retries not incremented and no further synthesis.
C7_WriteFailureIsFatal ==
    \A c \in Callers :
        (Analyze(c) /\ hist[c].last_result = "write_failed" /\ BetweenAttempts(c))
            => /\ Finished(c)
               /\ response[c].raised = "OSError"
               /\ frame[c].retries = hist[c].attempts - 1
               /\ hist[c].synths = hist[c].attempts

\* C7 amended: an attempt that failed at the write of the file is handled as
\* a failed execution: retries is incremented, the model is asked again with
\* the message of the write error, and the write error itself is never the
\* answer of the request.
C7_WriteFailureIsRetried ==
    \A c \in Callers :
        (Analyze(c) /\ hist[c].last_result = "write_failed" /\ BetweenAttempts(c))
            => /\ frame[c].retries = hist[c].attempts
               /\ hist[c].synths = hist[c].attempts + 1
               /\ Contains(hist[c].last_prompt, WriteError)
               /\ response[c].raised # "OSError"
               /\ pc[c] = "done" => hist[c].attempts = MAX_RETRIES

C7_Witness ==
    \E c \in Callers :
        /\ Analyze(c) /\ hist[c].last_result = "write_failed"
        /\ pc[c] = "model"
        /\ hist[c].attempts = 1
        /\ frame[c].retries = 1

\* ---------------------------------------------------------------------- C8

C9_FailedDashboardChangesNothing ==
    \A c \in Callers :
        (Dashboard(c) /\ Finished(c) /\ response[c].status # 200)
            => /\ static.linegraph = hist[c].before.linegraph
               /\ static.bargraph = hist[c].before.bargraph
               /\ static.piechart = hist[c].before.piechart
               /\ static.summary = hist[c].before.summary

\* --------------------------------------------------------------------- C10

\* C10: normalizing the result of import normalization returns it unchanged,
\* whichever of the three markers the fragment held at first.
C10_NormalizationIdempotent ==
    norm.stage = "twice" => norm.twice = norm.once

C10_Witness ==
    /\ norm.stage = "twice"
    /\ Contains(norm.code, MarkNumpy)
    /\ ~Contains(norm.code, MarkSubplots)
    /\ ~Contains(norm.code, MarkGo)
    /\ norm.once # norm.code
    /\ norm.twice = norm.once

\* --------------------------------------------------------------------- C11

\* The lines of a response that hold the separator ' - '.
WellFormed(lines) ==
    LET HasSeparator(line) == Len(line) >= 2
    IN  SelectSeq(lines, HasSeparator)

\* The latest summary response of the request held a line without the
\* separator among lines with it.
MixedReply(c) ==
    /\ Dashboard(c)
    /\ hist[c].summary_calls > 0
    /\ ~hist[c].last_reply.raised
    /\ Malformed(hist[c].last_reply.content)
    /\ WellFormed(hist[c].last_reply.content) # <<>>

\* C11: when a summary response holds a line without the separator among
\* well-formed lines, get_summary_from_gpt returns the points of the
\* well-formed lines of that response: the attempt does not fail and no further
\* model call follows it.
C11_MalformedLineSkipped ==
    \A c \in Callers :
        MixedReply(c)
            => /\ pc[c] \in {"build", "done"}
               /\ hist[c].last_synth.outcome = "summary"
               /\ pc[c] = "build" =>
                      summary_json[c] = ParseSummary(WellFormed(hist[c].last_reply.content))

\* --------------------------------------------------------------------- C12

\* The points hold, for every label of the response, the value of the last
\* line with that label.
LaterLineWins(points, lines) ==
    \A i \in 1..Len(lines) :
        (\A j \in (i + 1)..Len(lines) : Strip(lines[j][1]) # Strip(lines[i][1]))
            => /\ Strip(lines[i][1]) \in DOMAIN points
               /\ points[Strip(lines[i][1])] = Strip(lines[i][2])

\* C12: the summary get_summary_from_gpt returns, and the one create_dashboard
\* writes to summary.json, holds at most 4 points, one per label, and for a
\* label the response repeats the value of the later line.
C12_AtMostFourDistinctLabels ==
    \A c \in Callers :
        (Dashboard(c) /\ hist[c].last_synth.outcome = "summary")
            => /\ Cardinality(DOMAIN summary_json[c]) <= 4
               /\ LaterLineWins(summary_json[c], hist[c].last_reply.content)
               /\ (Finished(c) /\ response[c].status = 200)
                      => /\ static.summary.points = summary_json[c]
                         /\ Cardinality(DOMAIN static.summary.points) <= 4

\* --------------------------------------------------------------------- C13

\* The chart of one kind over the first column (x, names) and the second
\* column (y, values) of a dataframe.
FirstAndSecondColumn(kind, dataframe) ==
    [made |-> TRUE, kind |-> kind, x |-> 0, y |-> 1, data |-> dataframe.name]

\* C13: every model call of a dashboard request asks for summary text; the
\* request makes no call for code and no execution attempt, at most
\* SummaryRetries calls in all, none of them after the summary was returned,
\* and the line, bar and pie charts it writes are built from the first and
\* the second column of the active dataset.
C13_DashboardCallsAreSummaryCalls ==
    \A c \in Callers :
        Dashboard(c) =>
            /\ hist[c].purposes \subseteq {"SummaryText"}
            /\ hist[c].model_calls = 0
            /\ hist[c].synths = 0
            /\ hist[c].attempts = 0
            /\ hist[c].summary_calls <= SummaryRetries
            /\ pc[c] = "build" => hist[c].summary_calls = hist[c].last_synth.calls
            /\ (Finished(c) /\ response[c].status = 200)
                  => /\ hist[c].summary_calls = hist[c].last_synth.calls
                     /\ static.linegraph = FirstAndSecondColumn("line", df)
                     /\ static.bargraph = FirstAndSecondColumn("bar", df)
                     /\ static.piechart = FirstAndSecondColumn("pie", df)

C13_Witness ==
    \E c \in Callers :
        /\ Dashboard(c) /\ Finished(c)
        /\ response[c].status = 200
        /\ hist[c].summary_calls = 2
        /\ hist[c].purposes = {"SummaryText"}
        /\ static.piechart = FirstAndSecondColumn("pie", DataFull)
        /\ hist[c].before.piechart = NoChart

\* --------------------------------------------------------------------- C14

\* C14: once the attempt counter has reached MAX_RETRIES after a failed
\* execution the request ends without a further synthesis: it never makes more
\* syntheses than execution attempts.
C14_NoSynthesisOnceExhausted ==
    \A c \in Callers :
        (/\ Analyze(c)
         /\ AllFailed(c)
         /\ Len(hist[c].trail) = MAX_RETRIES
         /\ frame[c].retries = MAX_RETRIES)
            => /\ pc[c] = "done"
               /\ hist[c].synths <= hist[c].attempts

\* --------------------------------------------------------------------- C15

\* C15: with an upload handled while an analyze request is retrying, every
\* synthesis the request begins and every execution attempt it enters is
\* given the dataset that is in df at that moment, not the one the request
\* began with; so two attempts of one request can run against different
\* datasets (C15_Witness).
C15_RetryUsesUploadedDataset ==
    [][\A c \in Callers :
          /\ (pc[c] # "model" /\ pc'[c] = "model") => syn'[c].dataframe = df
          /\ (pc[c] = "model" /\ pc'[c] = "exec") => frame'[c].dataframe = df]_vars

C15_Witness ==
    \E c \in Callers :
        /\ Analyze(c)
        /\ hist[c].uploads = 1
        /\ Len(hist[c].trail) = 2
        /\ hist[c].before.enhanced_interactive_graph = NoFile
        /\ hist[c].trail[1] = [data |-> DataFull.name, ok |-> FALSE]
        /\ hist[c].trail[2] = [data |-> DataOneCol.name, ok |-> TRUE]
        /\ static.enhanced_interactive_graph.data = DataOneCol.name

\* --------------------------------------------------------------------- C16

\* C16: of two analyze requests handled at the same time, each successful
\* attempt writes the one file enhanced_interactive_graph over whatever it
\* holds, and the answer of a request is what that file holds when line 65
\* reads it, not what the request itself wrote; so a request can answer the
\* figure the other request wrote (C16_Witness).
C16_AnswerIsFileAsFound ==
    [][\A c \in Callers :
          /\ (pc[c] = "write" /\ pc'[c] = "send")
                => static'.enhanced_interactive_graph = Rendered(c)
          /\ (pc[c] = "send" /\ pc'[c] = "done")
                => /\ response'[c].status = 200
                   /\ response'[c].body = static.enhanced_interactive_graph]_vars

C16_Witness ==
    \E c \in Callers, o \in Callers :
        /\ o # c
        /\ Analyze(c) /\ Analyze(o)
        /\ Finished(c)
        /\ response[c].status = 200
        /\ hist[c].last_result = "success"
        /\ hist[o].last_result = "success"
        /\ Rendered(c) # Rendered(o)
        /\ response[c].body = Rendered(o)

\* --------------------------------------------------------------------- C17

\* C17: an execution that raised nothing and bound no fig is a failed
\* attempt: it is in the trail as failed, the file is as the request found it,
\* retries was incremented to the number of attempts made, and a further
\* synthesis was begun whose prompt holds the message of the KeyError.
C17_MissingFigIsFailedAttempt ==
    \A c \in Callers :
        (Analyze(c) /\ hist[c].last_result = "no_fig" /\ BetweenAttempts(c))
            => /\ ~hist[c].trail[Len(hist[c].trail)].ok
               /\ hist[c].execs >= 1
               /\ static.enhanced_interactive_graph
                      = hist[c].before.enhanced_interactive_graph
               /\ frame[c].retries = hist[c].attempts
               /\ hist[c].synths = hist[c].attempts + 1
               /\ hist[c].last_error = Some(KeyErrorFig)
               /\ Contains(hist[c].last_prompt,
                           <<"Previous attempt resulted in the following error:">>
                           \o KeyErrorFig)
               /\ pc[c] = "model" => syn[c].prompt = hist[c].last_prompt

C17_Witness ==
    \E c \in Callers :
        /\ Analyze(c)
        /\ hist[c].last_result = "no_fig"
        /\ pc[c] = "model"
        /\ hist[c].execs = 1
        /\ frame[c].retries = 1
        /\ Contains(syn[c].prompt, KeyErrorFig)
        /\ hist[c].before.enhanced_interactive_graph.made
        /\ static = hist[c].before

\* --------------------------------------------------------------------- C18

\* The most model calls of one analyze request: SynthesisAttempts for the
\* first synthesis and for the one after each of the MAX_RETRIES attempts.
MostModelCalls == SynthesisAttempts * (MAX_RETRIES + 1)

\* C18: an analyze request makes at most MAX_RETRIES execution attempts and at
\* most MostModelCalls model calls, and when every model call, execution and
\* file operation returns, a request that has begun reaches its answer.
C18_AnalyzeTerminates ==
    /\ [](\A c \in Callers :
             /\ hist[c].attempts <= MAX_RETRIES
             /\ hist[c].model_calls <= MostModelCalls)
    /\ \A c \in Callers : (pc[c] # "idle") ~> (pc[c] = "done")

C18_Witness ==
    \E c \in Callers :
        /\ Analyze(c) /\ Finished(c)
        /\ hist[c].attempts = MAX_RETRIES
        /\ hist[c].model_calls = MostModelCalls
        /\ response[c].status = 500

\* --------------------------------------------------------------------- C19

\* The answer of generate_dashboard to the exception a failed summary
\* attempt ended with.
SummaryFailure(reply) ==
    IF reply.raised THEN Caught("APIError", ApiError)
    ELSE Caught("IndexError", IndexErrorText)

\* C19: a dashboard request makes at most 3 summary calls; when the third
\* fails too the request ends with the error of that third attempt, and
\* linegraph, bargraph, piechart and summary are as the request found them.
C19_SummaryGivesUpAfterThree ==
    \A c \in Callers :
        Dashboard(c) =>
            /\ hist[c].summary_calls <= 3
            /\ (pc[c] = "summary" /\ hist[c].summary_calls > 0)
                  => /\ hist[c].last_reply.raised \/ Malformed(hist[c].last_reply.content)
                     /\ syn[c].attempt = hist[c].summary_calls
            /\ hist[c].last_synth.outcome = "raised"
                  => /\ hist[c].summary_calls = 3
                     /\ Finished(c)
                     /\ response[c] = SummaryFailure(hist[c].last_reply)
                     /\ response[c].status = 500
                     /\ static = hist[c].before

C19_Witness ==
    \E c \in Callers :
        /\ Dashboard(c) /\ Finished(c)
        /\ hist[c].last_synth = [calls |-> 3, outcome |-> "raised"]
        /\ hist[c].last_reply = Reply(SumMalformed)
        /\ response[c].raised = "IndexError"
        /\ hist[c].before.summary.made
        /\ static = hist[c].before

\* --------------------------------------------------------------------- C20

\* An upload the claim calls rejected: no file part, an empty file name, or
\* a name that ends in none of .csv, .xlsx, .xls.
Rejected(u) ==
    \/ ~u.hasFile
    \/ u.filename = <<>>
    \/ ~(\/ EndsWith(u.filename, <<".", "c", "s", "v">>)
          \/ EndsWith(u.filename, <<".", "x", "l", "s", "x">>)
          \/ EndsWith(u.filename, <<".", "x", "l", "s">>))

\* C20: a rejected upload answers 400 and leaves df as it was; an upload
\* that is not rejected and whose file parses answers 200 and leaves the
\* parsed dataset in df; df is never more than one dataset.
C20_RejectedUploadKeepsDataset ==
    /\ df \in Datasets \cup {NoData}
    /\ \A c \in Callers :
          (hist[c].endpoint = "upload" /\ Finished(c))
              => LET u == hist[c].upload
                 IN  /\ Rejected(u)
                           => /\ response[c].status = 400
                              /\ df = u.old
                     /\ (~Rejected(u) /\ u.parsed \in Datasets)
                           => /\ response[c].status = 200
                              /\ df = u.parsed
                     /\ df # u.old => response[c].status = 200

C20_Witness ==
    \E c \in Callers :
        /\ hist[c].endpoint = "upload" /\ Finished(c)
        /\ hist[c].upload = [hasFile |-> TRUE,
                              filename |-> <<"a", ".", "t", "x", "t">>,
                              parsed |-> DataOneCol, old |-> DataFull]
        /\ response[c].status = 400
        /\ df = DataFull

====
